---------------------------- MODULE Spec2Model ----------------------------
(***************************************************************************)
(* A model of the Minesweeper board engine (src/Minesweeper.h,             *)
(* src/Minesweeper.cpp): the fields of class Minesweeper are the           *)
(* variables, every public mutating method is one action, and the private  *)
(* helpers are operators over a record of the fields.                      *)
(***************************************************************************)
EXTENDS Integers, Sequences, FiniteSets, TLC

\* Bounds of the model.
MaxW == 2        \* NewGame/constructor widths are drawn from 0..MaxW
MaxH == 2        \* NewGame/constructor heights are drawn from 0..MaxH
MaxList == 2     \* longest explicit mine list handed to a setup
MaxTime == 2     \* the wall clock runs over 1..MaxTime

\* size_t arithmetic wraps modulo 2^64.  TLC's integers are 32 bits wide, so
\* the modulus is scaled to 2^30: like 2^64 it lies far above every width and
\* height, which is all the bounds check of IsCorrectBoundary depends on.
SizeModulus == 1073741824

VARIABLES
    width_,             \* size_t width_
    height_,            \* size_t height_
    start_time_,        \* time_t start_time_
    finish_time_,       \* time_t finish_time_
    status_,            \* GameStatus status_
    cells_with_mines_,  \* unordered_set<Cell> cells_with_mines_
    marked_cells_,      \* unordered_set<Cell> marked_cells_
    closed_cells_,      \* unordered_set<Cell> closed_cells_
    now,                \* the value std::time(NULL) returns
    setup_ok,           \* TRUE iff the latest constructor/NewGame call returned normally
    last                \* the latest call: its name, its setup arguments, what it threw

fields == <<width_, height_, start_time_, finish_time_, status_,
            cells_with_mines_, marked_cells_, closed_cells_>>
vars == <<width_, height_, start_time_, finish_time_, status_,
          cells_with_mines_, marked_cells_, closed_cells_, now, setup_ok, last>>

GameStatus == {"NOT_STARTED", "IN_PROGRESS", "VICTORY", "DEFEAT"}

Cell(cx, cy) == [x |-> cx, y |-> cy]

\* The object as one value.
Board == [width_ |-> width_, height_ |-> height_,
          start_time_ |-> start_time_, finish_time_ |-> finish_time_,
          status_ |-> status_, cells_with_mines_ |-> cells_with_mines_,
          marked_cells_ |-> marked_cells_, closed_cells_ |-> closed_cells_]

SetBoard(b) ==
    /\ width_' = b.width_
    /\ height_' = b.height_
    /\ start_time_' = b.start_time_
    /\ finish_time_' = b.finish_time_
    /\ status_' = b.status_
    /\ cells_with_mines_' = b.cells_with_mines_
    /\ marked_cells_' = b.marked_cells_
    /\ closed_cells_' = b.closed_cells_

\* The object holds exactly the value b.
BoardIs(b) ==
    /\ width_ = b.width_
    /\ height_ = b.height_
    /\ start_time_ = b.start_time_
    /\ finish_time_ = b.finish_time_
    /\ status_ = b.status_
    /\ cells_with_mines_ = b.cells_with_mines_
    /\ marked_cells_ = b.marked_cells_
    /\ closed_cells_ = b.closed_cells_

\* The cells of a w x h grid.
GridCells(w, h) == {Cell(cx, cy) : cx \in 0..(w - 1), cy \in 0..(h - 1)}

\* Member initialisers of the class: the object before a constructor body runs.
DefaultBoard ==
    [width_ |-> 0, height_ |-> 0, start_time_ |-> 0, finish_time_ |-> 0,
     status_ |-> "NOT_STARTED", cells_with_mines_ |-> {},
     marked_cells_ |-> {}, closed_cells_ |-> {}]

----------------------------------------------------------------------------
\* Private helpers.

\* Mutant: the flags of the previous game are kept.
ResetValues_KeepsFlags(b) ==
    [b EXCEPT !.width_ = 0, !.height_ = 0, !.start_time_ = 0, !.finish_time_ = 0,
              !.status_ = "NOT_STARTED", !.closed_cells_ = {},
              !.cells_with_mines_ = {}]

ResetValues(b) ==
    [b EXCEPT !.width_ = 0, !.height_ = 0, !.start_time_ = 0, !.finish_time_ = 0,
              !.status_ = "NOT_STARTED", !.marked_cells_ = {},
              !.closed_cells_ = {}, !.cells_with_mines_ = {}]

SetNewBoundary(b, width, height) ==
    [b EXCEPT !.width_ = width, !.height_ = height]

\* Mutant: the start time is not recorded.
StartGame_NoStamp(b, t) ==
    [b EXCEPT !.status_ = "IN_PROGRESS"]

StartGame(b, t) ==
    [b EXCEPT !.status_ = "IN_PROGRESS", !.start_time_ = t]

\* Mutant: the finish time is not recorded.
Defeat_NoStamp(b, t) ==
    [b EXCEPT !.status_ = "DEFEAT"]

Defeat(b, t) ==
    [b EXCEPT !.status_ = "DEFEAT", !.finish_time_ = t]

\* Mutant: victory only once every cell is opened.
VictoryCheck_AllOpened(b, t) ==
    IF Cardinality(b.closed_cells_) # 0
    THEN b
    ELSE [b EXCEPT !.status_ = "VICTORY", !.finish_time_ = t]

VictoryCheck(b, t) ==
    IF Cardinality(b.closed_cells_) # Cardinality(b.cells_with_mines_)
    THEN b
    ELSE [b EXCEPT !.status_ = "VICTORY", !.finish_time_ = t]

IsCorrectBoundary(b, cell) ==
    0 <= cell.x /\ cell.x < b.width_ /\ 0 <= cell.y /\ cell.y < b.height_

IsMine(b, cell) == cell \in b.cells_with_mines_

IsMarked(b, cell) == cell \in b.marked_cells_

IsClosed(b, cell) == cell \in b.closed_cells_

IsOpened(b, cell) == ~IsClosed(b, cell)

\* Mutant: a lost game does not count as finished.
IsFinishedGame_OnlyVictory(b) == b.status_ = "VICTORY"

IsFinishedGame(b) == b.status_ = "VICTORY" \/ b.status_ = "DEFEAT"

\* The k-th cell of the 3x3 scan "for i in -1..1, for j in -1..1" around cell,
\* k in 1..9; cell.x + i is unsigned arithmetic and wraps around.
\* Mutant: a coordinate that would leave 0..SizeModulus-1 saturates instead
\* of wrapping around.
NeighborCell_Clamped(cell, k) ==
    LET i == ((k - 1) \div 3) - 1
        j == ((k - 1) % 3) - 1
        clamp(v) == IF v < 0 THEN 0 ELSE IF v >= SizeModulus THEN SizeModulus - 1 ELSE v
    IN  Cell(clamp(cell.x + i), clamp(cell.y + j))

NeighborCell(cell, k) ==
    LET i == ((k - 1) \div 3) - 1
        j == ((k - 1) % 3) - 1
    IN  Cell((cell.x + i) % SizeModulus, (cell.y + j) % SizeModulus)

\* Mutant: only the four orthogonal neighbours are counted.
CalcMinesNear_NoDiagonals(b, cell) ==
    Cardinality({k \in {2, 4, 6, 8} : /\ IsCorrectBoundary(b, NeighborCell(cell, k))
                                      /\ IsMine(b, NeighborCell(cell, k))})

CalcMinesNear(b, cell) ==
    Cardinality({k \in 1..9 : /\ IsCorrectBoundary(b, NeighborCell(cell, k))
                              /\ IsMine(b, NeighborCell(cell, k))})

FillClosed(b) ==
    [b EXCEPT !.closed_cells_ = @ \cup GridCells(b.width_, b.height_)]

\* prefix is the set of the first mines_count cells of the shuffled vector.
FillMines(b, mines_count, prefix) ==
    IF mines_count = 0
    THEN b
    ELSE [b EXCEPT !.cells_with_mines_ = @ \cup prefix]

\* The prefixes std::shuffle can produce: every set of mines_count grid cells.
ShufflePrefixes(b, mines_count) ==
    {S \in SUBSET GridCells(b.width_, b.height_) : Cardinality(S) = mines_count}

Range(s) == {s[k] : k \in 1..Len(s)}

\* FieldDefinition(size_t): [b, err]; err is the exception thrown, if any.
FieldDefinitionCount(b, mines_count, prefix) ==
    IF mines_count > b.height_ * b.width_
    THEN [b |-> b, err |-> "ConfigError"]
    ELSE [b |-> FillClosed(FillMines(b, mines_count, prefix)), err |-> "none"]

\* Mutant: the coordinates of the list are not checked.
FieldDefinitionList_NoBoundsCheck(b, cells) ==
    IF Len(cells) > b.height_ * b.width_
    THEN [b |-> b, err |-> "ConfigError"]
    ELSE [b |-> FillClosed([b EXCEPT !.cells_with_mines_ = @ \cup Range(cells)]),
          err |-> "none"]

\* FieldDefinition(const std::vector<Cell>&).
FieldDefinitionList(b, cells) ==
    IF Len(cells) > b.height_ * b.width_
    THEN [b |-> b, err |-> "ConfigError"]
    ELSE IF \E k \in 1..Len(cells) : ~IsCorrectBoundary(b, cells[k])
    THEN [b |-> b, err |-> "ConfigError"]
    ELSE [b |-> FillClosed([b EXCEPT !.cells_with_mines_ = @ \cup Range(cells)]),
          err |-> "none"]

----------------------------------------------------------------------------
\* The flood fill of OpenCell.  st.q is the std::queue, st.closed the closed
\* set; st.pushed lists every cell pushed so far and st.pops counts the
\* iterations of the while loop.

\* Mutant: the diagonal neighbours are not enqueued.
RECURSIVE ScanNeighbors_Orthogonal(_, _, _, _)
ScanNeighbors_Orthogonal(b, st, cur_cell, k) ==
    IF k > 9
    THEN st
    ELSE LET neighbor_cell == NeighborCell(cur_cell, k)
         IN  IF /\ k \in {2, 4, 6, 8}
                /\ IsCorrectBoundary(b, neighbor_cell)
                /\ neighbor_cell \in st.closed
                /\ ~IsMarked(b, neighbor_cell)
             THEN ScanNeighbors_Orthogonal(b, [st EXCEPT !.q = Append(@, neighbor_cell),
                                                         !.closed = @ \ {neighbor_cell},
                                                         !.pushed = Append(@, neighbor_cell)],
                                           cur_cell, k + 1)
             ELSE ScanNeighbors_Orthogonal(b, st, cur_cell, k + 1)

RECURSIVE ScanNeighbors(_, _, _, _)
ScanNeighbors(b, st, cur_cell, k) ==
    IF k > 9
    THEN st
    ELSE LET neighbor_cell == NeighborCell(cur_cell, k)
         IN  IF /\ IsCorrectBoundary(b, neighbor_cell)
                /\ neighbor_cell \in st.closed
                /\ ~IsMarked(b, neighbor_cell)
             THEN ScanNeighbors(b, [st EXCEPT !.q = Append(@, neighbor_cell),
                                              !.closed = @ \ {neighbor_cell},
                                              !.pushed = Append(@, neighbor_cell)],
                                cur_cell, k + 1)
             ELSE ScanNeighbors(b, st, cur_cell, k + 1)

\* Mutant: a cell is erased from the closed set when it is dequeued, not
\* when it is enqueued.
RECURSIVE ScanNeighbors_NoErase(_, _, _, _)
ScanNeighbors_NoErase(b, st, cur_cell, k) ==
    IF k > 9
    THEN st
    ELSE LET neighbor_cell == NeighborCell(cur_cell, k)
         IN  IF /\ IsCorrectBoundary(b, neighbor_cell)
                /\ neighbor_cell \in st.closed
                /\ ~IsMarked(b, neighbor_cell)
             THEN ScanNeighbors_NoErase(b, [st EXCEPT !.q = Append(@, neighbor_cell),
                                                      !.pushed = Append(@, neighbor_cell)],
                                        cur_cell, k + 1)
             ELSE ScanNeighbors_NoErase(b, st, cur_cell, k + 1)

RECURSIVE FloodLoop_EraseOnPop(_, _)
FloodLoop_EraseOnPop(b, st) ==
    IF st.q = <<>>
    THEN st
    ELSE LET cur_cell == Head(st.q)
             st1 == [st EXCEPT !.q = Tail(@), !.pops = @ + 1,
                               !.closed = @ \ {cur_cell}]
         IN  IF CalcMinesNear(b, cur_cell) = 0
             THEN FloodLoop_EraseOnPop(b, ScanNeighbors_NoErase(b, st1, cur_cell, 1))
             ELSE FloodLoop_EraseOnPop(b, st1)

RECURSIVE FloodLoop(_, _)
FloodLoop(b, st) ==
    IF st.q = <<>>
    THEN st
    ELSE LET cur_cell == Head(st.q)
             st1 == [st EXCEPT !.q = Tail(@), !.pops = @ + 1]
         IN  IF CalcMinesNear(b, cur_cell) = 0
             THEN FloodLoop(b, ScanNeighbors(b, st1, cur_cell, 1))
             ELSE FloodLoop(b, st1)

\* Mutant: the cell is opened and nothing cascades.
FloodFill_OnlyCell(b, cell) ==
    [q |-> <<>>, closed |-> b.closed_cells_ \ {cell}, pushed |-> <<cell>>, pops |-> 1]

\* Lines 192-211: push the cell, erase it, run the loop.
FloodFill(b, cell) ==
    FloodLoop(b, [q |-> <<cell>>, closed |-> b.closed_cells_ \ {cell},
                  pushed |-> <<cell>>, pops |-> 0])

----------------------------------------------------------------------------
\* The public methods as functions of the object, the clock and the
\* arguments: [b |-> the object afterwards, err |-> the exception thrown].

\* Mutant: the toggle is followed by a VictoryCheck.
MarkCellOp_ChecksVictory(b, t, cell) ==
    IF ~IsCorrectBoundary(b, cell)
    THEN [b |-> b, err |-> "BoundsError"]
    ELSE IF IsFinishedGame(b)
    THEN [b |-> b, err |-> "none"]
    ELSE LET b1 == IF b.status_ = "NOT_STARTED" THEN StartGame(b, t) ELSE b
         IN  IF IsMarked(b1, cell)
             THEN [b |-> VictoryCheck([b1 EXCEPT !.marked_cells_ = @ \ {cell}], t),
                   err |-> "none"]
             ELSE [b |-> VictoryCheck([b1 EXCEPT !.marked_cells_ = @ \cup {cell}], t),
                   err |-> "none"]

\* Mutant: a flag is set but never removed.
MarkCellOp_OnlyInserts(b, t, cell) ==
    IF ~IsCorrectBoundary(b, cell)
    THEN [b |-> b, err |-> "BoundsError"]
    ELSE IF IsFinishedGame(b)
    THEN [b |-> b, err |-> "none"]
    ELSE LET b1 == IF b.status_ = "NOT_STARTED" THEN StartGame(b, t) ELSE b
         IN  [b |-> [b1 EXCEPT !.marked_cells_ = @ \cup {cell}], err |-> "none"]

MarkCellOp(b, t, cell) ==
    IF ~IsCorrectBoundary(b, cell)
    THEN [b |-> b, err |-> "BoundsError"]
    ELSE IF IsFinishedGame(b)
    THEN [b |-> b, err |-> "none"]
    ELSE LET b1 == IF b.status_ = "NOT_STARTED" THEN StartGame(b, t) ELSE b
         IN  IF IsMarked(b1, cell)
             THEN [b |-> [b1 EXCEPT !.marked_cells_ = @ \ {cell}], err |-> "none"]
             ELSE [b |-> [b1 EXCEPT !.marked_cells_ = @ \cup {cell}], err |-> "none"]

\* Mutant: a mine that is stepped on is opened.
OpenCellOp_OpensMine(b, t, cell) ==
    IF ~IsCorrectBoundary(b, cell)
    THEN [b |-> b, err |-> "BoundsError"]
    ELSE IF IsFinishedGame(b) \/ IsMarked(b, cell) \/ IsOpened(b, cell)
    THEN [b |-> b, err |-> "none"]
    ELSE LET b1 == IF b.status_ = "NOT_STARTED" THEN StartGame(b, t) ELSE b
         IN  IF IsMine(b1, cell)
             THEN [b |-> Defeat([b1 EXCEPT !.closed_cells_ = @ \ {cell}], t),
                   err |-> "none"]
             ELSE [b |-> VictoryCheck([b1 EXCEPT !.closed_cells_ =
                                                    FloodFill(b1, cell).closed], t),
                   err |-> "none"]

\* Mutant: the finished-game check comes before the bounds check.
OpenCellOp_FinishedFirst(b, t, cell) ==
    IF IsFinishedGame(b)
    THEN [b |-> b, err |-> "none"]
    ELSE IF ~IsCorrectBoundary(b, cell)
    THEN [b |-> b, err |-> "BoundsError"]
    ELSE IF IsMarked(b, cell) \/ IsOpened(b, cell)
    THEN [b |-> b, err |-> "none"]
    ELSE LET b1 == IF b.status_ = "NOT_STARTED" THEN StartGame(b, t) ELSE b
         IN  IF IsMine(b1, cell)
             THEN [b |-> Defeat(b1, t), err |-> "none"]
             ELSE [b |-> VictoryCheck([b1 EXCEPT !.closed_cells_ =
                                                    FloodFill(b1, cell).closed], t),
                   err |-> "none"]

\* Mutant: a flagged cell can be opened.
OpenCellOp_IgnoresFlag(b, t, cell) ==
    IF ~IsCorrectBoundary(b, cell)
    THEN [b |-> b, err |-> "BoundsError"]
    ELSE IF IsFinishedGame(b) \/ IsOpened(b, cell)
    THEN [b |-> b, err |-> "none"]
    ELSE LET b1 == IF b.status_ = "NOT_STARTED" THEN StartGame(b, t) ELSE b
         IN  IF IsMine(b1, cell)
             THEN [b |-> Defeat(b1, t), err |-> "none"]
             ELSE [b |-> VictoryCheck([b1 EXCEPT !.closed_cells_ =
                                                    FloodFill(b1, cell).closed], t),
                   err |-> "none"]

\* Mutant: an opened cell is revealed again.
OpenCellOp_Reopens(b, t, cell) ==
    IF ~IsCorrectBoundary(b, cell)
    THEN [b |-> b, err |-> "BoundsError"]
    ELSE IF IsFinishedGame(b) \/ IsMarked(b, cell)
    THEN [b |-> b, err |-> "none"]
    ELSE LET b1 == IF b.status_ = "NOT_STARTED" THEN StartGame(b, t) ELSE b
         IN  IF IsMine(b1, cell)
             THEN [b |-> Defeat(b1, t), err |-> "none"]
             ELSE [b |-> VictoryCheck([b1 EXCEPT !.closed_cells_ =
                                                    FloodFill(b1, cell).closed], t),
                   err |-> "none"]

OpenCellOp(b, t, cell) ==
    IF ~IsCorrectBoundary(b, cell)
    THEN [b |-> b, err |-> "BoundsError"]
    ELSE IF IsFinishedGame(b) \/ IsMarked(b, cell) \/ IsOpened(b, cell)
    THEN [b |-> b, err |-> "none"]
    ELSE LET b1 == IF b.status_ = "NOT_STARTED" THEN StartGame(b, t) ELSE b
         IN  IF IsMine(b1, cell)
             THEN [b |-> Defeat(b1, t), err |-> "none"]
             ELSE [b |-> VictoryCheck([b1 EXCEPT !.closed_cells_ =
                                                    FloodFill(b1, cell).closed], t),
                   err |-> "none"]

NewGameCountOp(b, width, height, mines_count, prefix) ==
    FieldDefinitionCount(SetNewBoundary(ResetValues(b), width, height),
                         mines_count, prefix)

NewGameListOp(b, width, height, cells) ==
    FieldDefinitionList(SetNewBoundary(ResetValues(b), width, height), cells)

\* The constructors: the member initialiser list, then FieldDefinition.
ConstructCountOp(width, height, mines_count, prefix) ==
    FieldDefinitionCount([DefaultBoard EXCEPT !.width_ = width, !.height_ = height],
                         mines_count, prefix)

ConstructListOp(width, height, cells) ==
    FieldDefinitionList([DefaultBoard EXCEPT !.width_ = width, !.height_ = height,
                                             !.cells_with_mines_ = Range(cells)],
                        cells)

\* Mutant: a finished game keeps counting from the start time.
GetGameTimeOp_IgnoresFinish(b, t) ==
    IF b.status_ = "NOT_STARTED"
    THEN 0
    ELSE t - b.start_time_

GetGameTimeOp(b, t) ==
    IF b.status_ = "NOT_STARTED"
    THEN 0
    ELSE IF b.status_ = "IN_PROGRESS"
    THEN t - b.start_time_
    ELSE b.finish_time_ - b.start_time_

\* std::to_string of a neighbour count; a 3x3 scan counts at most 9.
CountToString(n) == <<"1", "2", "3", "4", "5", "6", "7", "8", "9">>[n]

\* Mutant: the flag is tested before the mine of a lost game.
RenderCell_FlagFirst(b, cell) ==
    IF IsMarked(b, cell)
    THEN "?"
    ELSE IF IsMine(b, cell) /\ b.status_ = "DEFEAT"
    THEN "*"
    ELSE IF IsClosed(b, cell)
    THEN "-"
    ELSE LET mines == CalcMinesNear(b, cell)
         IN  IF mines # 0 THEN CountToString(mines) ELSE "."

\* The text RenderField appends to result[y] for one cell (lines 234-244).
RenderCell(b, cell) ==
    IF IsMine(b, cell) /\ b.status_ = "DEFEAT"
    THEN "*"
    ELSE IF IsMarked(b, cell)
    THEN "?"
    ELSE IF IsClosed(b, cell)
    THEN "-"
    ELSE LET mines == CalcMinesNear(b, cell)
         IN  IF mines # 0 THEN CountToString(mines) ELSE "."

\* result: row y of the vector is element y + 1, a string of one-character
\* pieces in the order x = 0, 1, ...
RenderField(b) ==
    [row \in 1..b.height_ |->
        [col \in 1..b.width_ |-> RenderCell(b, Cell(col - 1, row - 1))]]

GetGameTime == GetGameTimeOp(Board, now)

----------------------------------------------------------------------------
\* Inputs.

Widths == 0..MaxW
Heights == 0..MaxH
\* Mine counts up to one more than the largest grid holds.
MineCounts == 0..(MaxW * MaxH + 1)
\* Cell arguments: the cells of the largest grid and one cell outside it.
ArgCells == GridCells(MaxW, MaxH) \cup {Cell(MaxW, MaxH)}

RECURSIVE SeqsUpTo(_, _)
SeqsUpTo(S, n) ==
    IF n = 0
    THEN {<<>>}
    ELSE LET shorter == SeqsUpTo(S, n - 1)
         IN  shorter \cup {Append(s, e) : s \in shorter, e \in S}

\* The cells a mine list is built from: two opposite corners of the largest
\* grid and one cell outside it (a corner of the largest grid is itself
\* outside every smaller one).
MineListCells == {Cell(0, 0), Cell(MaxW - 1, MaxH - 1), Cell(MaxW, MaxH)}

MineLists == SeqsUpTo(MineListCells, MaxList)

----------------------------------------------------------------------------
\* The record kept in last.  A setup call records its arguments (width,
\* height, the mine count or the length of the list, the list); the cell of
\* an OpenCell or MarkCell call is not recorded.
Call(op, err, width, height, mines_count, cells) ==
    [op |-> op, err |-> err, width |-> width, height |-> height,
     mines_count |-> mines_count, cells |-> cells]

\* The state after construction: every constructor call that returns.

Init ==
    /\ now = 1
    /\ setup_ok = TRUE
    /\ \/ \E w \in Widths, h \in Heights, n \in MineCounts :
            /\ n <= h * w
            /\ \E prefix \in ShufflePrefixes([width_ |-> w, height_ |-> h], n) :
                 /\ BoardIs(ConstructCountOp(w, h, n, prefix).b)
                 /\ last = Call("Minesweeper(count)", "none", w, h, n, <<>>)
       \/ \E w \in Widths, h \in Heights, cells \in MineLists :
            /\ ConstructListOp(w, h, cells).err = "none"
            /\ BoardIs(ConstructListOp(w, h, cells).b)
            /\ last = Call("Minesweeper(list)", "none", w, h, Len(cells), cells)

NewGameCount(width, height, mines_count) ==
    \E prefix \in ShufflePrefixes([width_ |-> width, height_ |-> height],
                                  IF mines_count > height * width THEN 0 ELSE mines_count) :
        LET r == NewGameCountOp(Board, width, height, mines_count, prefix)
        IN  /\ SetBoard(r.b)
            /\ setup_ok' = (r.err = "none")
            /\ last' = Call("NewGame(count)", r.err, width, height, mines_count, <<>>)
            /\ UNCHANGED now

NewGameList(width, height, cells) ==
    LET r == NewGameListOp(Board, width, height, cells)
    IN  /\ SetBoard(r.b)
        /\ setup_ok' = (r.err = "none")
        /\ last' = Call("NewGame(list)", r.err, width, height, Len(cells), cells)
        /\ UNCHANGED now

MarkCell(cell) ==
    LET r == MarkCellOp(Board, now, cell)
    IN  /\ SetBoard(r.b)
        /\ last' = Call("MarkCell", r.err, 0, 0, 0, <<>>)
        /\ UNCHANGED <<now, setup_ok>>

OpenCell(cell) ==
    LET r == OpenCellOp(Board, now, cell)
    IN  /\ SetBoard(r.b)
        /\ last' = Call("OpenCell", r.err, 0, 0, 0, <<>>)
        /\ UNCHANGED <<now, setup_ok>>

\* The wall clock advances by a second.
Tick ==
    /\ now < MaxTime
    /\ now' = now + 1
    /\ UNCHANGED <<fields, setup_ok, last>>

Next ==
    \/ \E w \in Widths, h \in Heights, n \in MineCounts : NewGameCount(w, h, n)
    \/ \E w \in Widths, h \in Heights, cells \in MineLists : NewGameList(w, h, cells)
    \/ \E cell \in ArgCells : MarkCell(cell)
    \/ \E cell \in ArgCells : OpenCell(cell)
    \/ Tick

Spec == Init /\ [][Next]_vars

----------------------------------------------------------------------------
\* A second specification, for the flood fill: one game on a larger board
\* with few mines.  The board is constructed (either form) and then played
\* with OpenCell and MarkCell; the player keeps at most MaxFlags cells
\* flagged at a time, and the clock stands still.

MaxFloodW == 3       \* constructor widths are drawn from 1..MaxFloodW
MaxFloodH == 3       \* constructor heights are drawn from 1..MaxFloodH
MaxFloodMines == 2   \* largest mine count (longest mine list) of a constructor
MaxFlags == 1        \* most cells flagged at a time

\* Cell arguments: those of the largest grid (outside every smaller one).
FloodArgCells == GridCells(MaxFloodW, MaxFloodH)

FloodMineLists == SeqsUpTo(GridCells(MaxFloodW, MaxFloodH), MaxFloodMines)

InitFlood ==
    /\ now = 1
    /\ setup_ok = TRUE
    /\ \/ \E w \in 1..MaxFloodW, h \in 1..MaxFloodH, n \in 0..MaxFloodMines :
            /\ n <= h * w
            /\ \E prefix \in ShufflePrefixes([width_ |-> w, height_ |-> h], n) :
                 /\ BoardIs(ConstructCountOp(w, h, n, prefix).b)
                 /\ last = Call("Minesweeper(count)", "none", w, h, n, <<>>)
       \/ \E w \in 1..MaxFloodW, h \in 1..MaxFloodH, cells \in FloodMineLists :
            /\ ConstructListOp(w, h, cells).err = "none"
            /\ BoardIs(ConstructListOp(w, h, cells).b)
            /\ last = Call("Minesweeper(list)", "none", w, h, Len(cells), cells)

MarkCellCapped(cell) ==
    /\ Cardinality(MarkCellOp(Board, now, cell).b.marked_cells_) <= MaxFlags
    /\ MarkCell(cell)

NextFlood ==
    \/ \E cell \in FloodArgCells : MarkCellCapped(cell)
    \/ \E cell \in FloodArgCells : OpenCell(cell)

SpecFlood == InitFlood /\ [][NextFlood]_vars

----------------------------------------------------------------------------
\* Vocabulary of the properties.

AllCells == GridCells(width_, height_)
InGrid(cell) == cell \in AllCells
Finished == status_ \in {"VICTORY", "DEFEAT"}
\* This step is a call of OpenCell (MarkCell): Tick is the only step that
\* moves the clock and every call names itself in last.
OpenStep(cell) == last'.op = "OpenCell" /\ now' = now /\ OpenCell(cell)
MarkStep(cell) == last'.op = "MarkCell" /\ now' = now /\ MarkCell(cell)
PlayStep == \E cell \in ArgCells : OpenStep(cell) \/ MarkStep(cell)
SetupOps == {"Minesweeper(count)", "Minesweeper(list)", "NewGame(count)", "NewGame(list)"}

----------------------------------------------------------------------------
\* C1 (as claimed): on every successfully set-up board, after any sequence of
\* in-bounds OpenCell and MarkCell calls (the empty one too), status is
\* VICTORY iff the number of closed cells equals the number of mines and
\* status is not DEFEAT.
C1_VictoryIffClosedEqualsMines ==
    setup_ok =>
        (status_ = "VICTORY" <=>
            /\ Cardinality(closed_cells_) = Cardinality(cells_with_mines_)
            /\ status_ # "DEFEAT")

\* C1 (amended): the same equivalence on every successfully set-up board
\* that has at least one cell without a mine.
C1_VictoryIffOnBoardsWithSafeCell ==
    (setup_ok /\ Cardinality(cells_with_mines_) < width_ * height_) =>
        (status_ = "VICTORY" <=>
            /\ Cardinality(closed_cells_) = Cardinality(cells_with_mines_)
            /\ status_ # "DEFEAT")

\* A won game on a board with mines: the closed cells are exactly the mines.
C1_Witness ==
    /\ setup_ok
    /\ status_ = "VICTORY"
    /\ last.op = "OpenCell"
    /\ cells_with_mines_ # {}
    /\ closed_cells_ = cells_with_mines_

\* C2: once status is VICTORY or DEFEAT, an OpenCell or MarkCell call with an
\* in-bounds cell changes no field of the board.
C2_FinishedGameIsFrozen ==
    [][\A cell \in ArgCells :
          (Finished /\ InGrid(cell) /\ (OpenStep(cell) \/ MarkStep(cell)))
              => UNCHANGED fields]_vars

\* MarkCell never ends a game, so here an in-bounds MarkCell returned after
\* the game was lost.
C2_Witness ==
    /\ status_ = "DEFEAT"
    /\ last.op = "MarkCell"
    /\ last.err = "none"

\* C3: in an unfinished game OpenCell on an in-bounds, closed, unflagged mine
\* sets DEFEAT, records the finish time and leaves the closed, flagged and
\* mine sets alone; also as the first call of the game.
C3_OpenMineIsDefeat ==
    [][\A cell \in ArgCells :
          (/\ ~Finished
           /\ InGrid(cell)
           /\ cell \in cells_with_mines_
           /\ cell \in closed_cells_
           /\ cell \notin marked_cells_
           /\ OpenStep(cell))
              => /\ status_' = "DEFEAT"
                 /\ finish_time_' = now
                 /\ UNCHANGED <<closed_cells_, marked_cells_, cells_with_mines_>>]_vars

\* The first call of the game opened a mine: lost, everything still closed.
C3_Witness ==
    /\ status_ = "DEFEAT"
    /\ last.op = "OpenCell"
    /\ finish_time_ = start_time_
    /\ finish_time_ = now
    /\ marked_cells_ = {}
    /\ closed_cells_ = AllCells
    /\ cells_with_mines_ # {}

\* C4: no OpenCell or MarkCell call moves status backwards or out of a
\* terminal value, and a call that enters a terminal status leaves the start
\* time recorded: the one StartGame wrote earlier, or the current clock when
\* the call itself started the game.
C4_StatusMovesForward ==
    [][PlayStep =>
          /\ (status_ = "IN_PROGRESS" => status_' # "NOT_STARTED")
          /\ (Finished => status_' = status_)
          /\ ((~Finished /\ Finished') =>
                 /\ start_time_' >= 1
                 /\ start_time_' = (IF status_ = "NOT_STARTED" THEN now
                                                               ELSE start_time_))]_vars

\* The first call of a game on a mine-free board won it at once, at a time
\* when the clock had already advanced.
C4_Witness ==
    /\ status_ = "VICTORY"
    /\ cells_with_mines_ = {}
    /\ marked_cells_ = {}
    /\ start_time_ = finish_time_
    /\ start_time_ > 1

\* C5: no OpenCell call changes whether a flagged cell is closed, be it the
\* target or a neighbour the flood fill passes; OpenCell on a flagged cell
\* changes no field at all.
C5_FlaggedCellNeverOpened ==
    [][\A cell \in ArgCells :
          OpenStep(cell) =>
              /\ \A f \in marked_cells_ : (f \in closed_cells_' <=> f \in closed_cells_)
              /\ ((InGrid(cell) /\ cell \in marked_cells_) => UNCHANGED fields)]_vars

\* A mine-free board in play after an OpenCell: whatever is unflagged is
\* opened, and exactly the flagged cells are still closed.
C5_Witness ==
    /\ setup_ok
    /\ status_ = "IN_PROGRESS"
    /\ last.op = "OpenCell"
    /\ last.err = "none"
    /\ cells_with_mines_ = {}
    /\ marked_cells_ # {}
    /\ closed_cells_ = marked_cells_
    /\ closed_cells_ # AllCells

\* The fields C6 compares.
RevealView(b) ==
    <<b.status_, b.closed_cells_, b.marked_cells_, b.cells_with_mines_, b.finish_time_>>

\* C6: in every reachable state and for every in-bounds cell, OpenCell twice
\* in a row (the clock may advance in between) leaves status, the closed,
\* flagged and mine sets and the finish time as OpenCell once does; OpenCell
\* on an opened cell changes no field; no OpenCell adds to the closed set.
C6_RevealIsIdempotent ==
    /\ [](\A cell \in AllCells : \A t2 \in now..MaxTime :
             LET once == OpenCellOp(Board, now, cell).b
                 twice == OpenCellOp(once, t2, cell).b
             IN  RevealView(twice) = RevealView(once))
    /\ [][\A cell \in ArgCells :
             OpenStep(cell) =>
                 /\ closed_cells_' \subseteq closed_cells_
                 /\ ((InGrid(cell) /\ cell \notin closed_cells_) => UNCHANGED fields)]_vars

\* A game in play in which OpenCell has opened some cells and left others.
C6_Witness ==
    /\ setup_ok
    /\ status_ = "IN_PROGRESS"
    /\ last.op = "OpenCell"
    /\ closed_cells_ # AllCells
    /\ closed_cells_ # cells_with_mines_
    /\ marked_cells_ = {}

\* C7: in an unfinished game, for every in-bounds cell, one MarkCell flips
\* exactly that cell's membership in the flagged set and leaves the closed
\* and mine sets alone, and a second MarkCell on the same cell restores the
\* flagged set.
C7_MarkIsItsOwnInverse ==
    ~Finished =>
        \A cell \in AllCells : \A t2 \in now..MaxTime :
            LET once == MarkCellOp(Board, now, cell).b
                twice == MarkCellOp(once, t2, cell).b
            IN  /\ once.marked_cells_ = (IF cell \in marked_cells_
                                         THEN marked_cells_ \ {cell}
                                         ELSE marked_cells_ \cup {cell})
                /\ once.closed_cells_ = closed_cells_
                /\ once.cells_with_mines_ = cells_with_mines_
                /\ twice.marked_cells_ = marked_cells_
                /\ twice.closed_cells_ = closed_cells_
                /\ twice.cells_with_mines_ = cells_with_mines_

\* A game that MarkCell started and in which the latest MarkCell removed the
\* only flag: nothing is flagged, nothing is opened.
C7_Witness ==
    /\ setup_ok
    /\ status_ = "IN_PROGRESS"
    /\ last.op = "MarkCell"
    /\ last.err = "none"
    /\ marked_cells_ = {}
    /\ closed_cells_ = AllCells
    /\ AllCells # {}

\* C8: GetGameTime is 0 while NOT_STARTED; from one IN_PROGRESS state to the
\* next it does not decrease and the start time is not rewritten; from one
\* finished state to the next it is the same value, and that value is >= 0.
C8_GameTime ==
    /\ [](status_ = "NOT_STARTED" => GetGameTime = 0)
    /\ [][/\ (status_ = "IN_PROGRESS" /\ status_' = "IN_PROGRESS") =>
                 (GetGameTime' >= GetGameTime /\ start_time_' = start_time_)
          /\ (Finished /\ Finished') =>
                 (GetGameTime' = GetGameTime /\ GetGameTime >= 0)]_vars

\* A finished game that took a second, looked at after a later MarkCell call.
C8_Witness ==
    /\ Finished
    /\ finish_time_ > start_time_
    /\ GetGameTime = 1
    /\ last.op = "MarkCell"

\* C9 (as claimed): a NewGame call that fails with ConfigError leaves every
\* field of the board as it was.
C9_FailedNewGameLeavesBoard ==
    [][(/\ last'.op \in {"NewGame(count)", "NewGame(list)"}
        /\ now' = now
        /\ last'.err = "ConfigError")
           => UNCHANGED fields]_vars

\* C10: a setup fails with ConfigError exactly when the mine count (the
\* length of the mine list) exceeds width*height or a listed cell is outside
\* the grid; and after a successful setup every mine lies in the grid and
\* there are at most width*height of them, whatever is played afterwards.
C10_SetupFailsExactlyWhen ==
    /\ last.op \in SetupOps =>
          /\ last.err \in {"none", "ConfigError"}
          /\ setup_ok <=> last.err = "none"
          /\ last.err = "ConfigError" <=>
                \/ last.mines_count > last.width * last.height
                \/ \E k \in 1..Len(last.cells) :
                      last.cells[k] \notin GridCells(last.width, last.height)
    /\ setup_ok =>
          /\ cells_with_mines_ \subseteq AllCells
          /\ Cardinality(cells_with_mines_) <= width_ * height_

\* A NewGame with a duplicated in-grid cell on a 1x1 board failed: the list
\* is longer than the grid is large.
C10_Witness ==
    /\ last.op = "NewGame(list)"
    /\ last.err = "ConfigError"
    /\ last.width = 1
    /\ last.height = 1
    /\ last.cells = <<Cell(0, 0), Cell(0, 0)>>

\* C11: OpenCell and MarkCell with a cell outside the grid throw BoundsError
\* in every status and change no field; with a cell inside the grid they
\* throw nothing.
C11_BoundsError ==
    [][\A cell \in ArgCells :
          (OpenStep(cell) \/ MarkStep(cell)) =>
              IF InGrid(cell)
              THEN last'.err = "none"
              ELSE last'.err = "BoundsError" /\ UNCHANGED fields]_vars

\* An OpenCell outside the grid of a finished game threw BoundsError.
C11_Witness ==
    /\ Finished
    /\ last.op = "OpenCell"
    /\ last.err = "BoundsError"

\* A board nothing has been opened or flagged on.
Untouched == closed_cells_ = AllCells /\ marked_cells_ = {}

\* The freshly constructed 3x3 board whose only mine is the listed cell (1,1).
Fresh3x3CentreMine ==
    /\ width_ = 3
    /\ height_ = 3
    /\ last.op = "Minesweeper(list)"
    /\ last.cells = <<Cell(1, 1)>>
    /\ cells_with_mines_ = {Cell(1, 1)}
    /\ status_ = "NOT_STARTED"
    /\ Untouched

\* C12 (as claimed): on that board one OpenCell((0,0)) opens all 8 mine-free
\* cells, leaves only the mine closed and sets VICTORY.
C12_CornerOpensAll ==
    [][(Fresh3x3CentreMine /\ OpenStep(Cell(0, 0))) =>
          /\ closed_cells_' = {Cell(1, 1)}
          /\ status_' = "VICTORY"]_vars

\* C12 (amended): on that board one OpenCell((0,0)) opens (0,0) alone: the
\* mine (1,1) is a diagonal neighbour, so the count of (0,0) is 1 and nothing
\* cascades; the other 8 cells stay closed and status is IN_PROGRESS.
C12_CornerOpensItself ==
    [][(Fresh3x3CentreMine /\ OpenStep(Cell(0, 0))) =>
          /\ closed_cells_' = AllCells \ {Cell(0, 0)}
          /\ status_' = "IN_PROGRESS"]_vars

\* The 3x3 board with the mine (1,1) after OpenCell((0,0)).
C12_Witness ==
    /\ width_ = 3
    /\ height_ = 3
    /\ cells_with_mines_ = {Cell(1, 1)}
    /\ last.op = "OpenCell"
    /\ status_ = "IN_PROGRESS"
    /\ marked_cells_ = {}
    /\ closed_cells_ = AllCells \ {Cell(0, 0)}

\* C13: on a board with at least one cell, no mine and no flag, the first
\* OpenCell on any cell of the grid opens every cell and sets VICTORY.
C13_MineFreeBoardOpensAtOnce ==
    [][\A cell \in FloodArgCells :
          (/\ setup_ok
           /\ cells_with_mines_ = {}
           /\ ~Finished
           /\ Untouched
           /\ InGrid(cell)
           /\ OpenStep(cell))
              => /\ closed_cells_' = {}
                 /\ status_' = "VICTORY"]_vars

\* The largest mine-free board, won by an OpenCell with nothing left closed.
C13_Witness ==
    /\ width_ = MaxFloodW
    /\ height_ = MaxFloodH
    /\ cells_with_mines_ = {}
    /\ marked_cells_ = {}
    /\ closed_cells_ = {}
    /\ status_ = "VICTORY"
    /\ last.op = "OpenCell"

\* The cells around a cell, at distance one in the 8-connected grid.
Around(cell) ==
    {c \in AllCells : /\ c # cell
                      /\ c.x - cell.x \in {-1, 0, 1}
                      /\ c.y - cell.y \in {-1, 0, 1}}

\* The number of mines among them.
MinesAround(cell) == Cardinality(Around(cell) \cap cells_with_mines_)

\* The character the claimed precedence gives a cell.
Precedence(cell) ==
    IF cell \in cells_with_mines_ /\ status_ = "DEFEAT" THEN "*"
    ELSE IF cell \in marked_cells_ THEN "?"
    ELSE IF cell \in closed_cells_ THEN "-"
    ELSE IF MinesAround(cell) = 0 THEN "."
    ELSE <<"1", "2", "3", "4", "5", "6", "7", "8">>[MinesAround(cell)]

\* C14: RenderField gives height rows of width characters, and character x
\* of row y is '*' for a mine of a lost game, else '?' for a flagged cell,
\* else '-' for a closed cell, else the count of mines around the cell as a
\* digit or '.' for zero; so every mine of a lost game shows '*' and no cell
\* shows '*' otherwise.
C14_RenderPrecedence ==
    LET result == RenderField(Board)
    IN  /\ Len(result) = height_
        /\ \A row \in 1..height_ : Len(result[row]) = width_
        /\ \A cell \in AllCells :
              /\ result[cell.y + 1][cell.x + 1] = Precedence(cell)
              /\ (status_ = "DEFEAT" /\ cell \in cells_with_mines_)
                    => result[cell.y + 1][cell.x + 1] = "*"
              /\ status_ # "DEFEAT" => result[cell.y + 1][cell.x + 1] # "*"

\* A lost 2x2 game with the mines (0,0), flagged, and (1,0): both show '*',
\* the closed cell (0,1) shows '-' and the opened cell (1,1) its count.
C14_Witness ==
    /\ status_ = "DEFEAT"
    /\ Cell(0, 0) \in marked_cells_
    /\ RenderField(Board) = << <<"*", "*">>, <<"-", "2">> >>

\* One round of the reference closure: S and, for every cell of S with no
\* mine around it, the cells around it that are closed and unflagged now.
ClosureStep(S) ==
    S \cup UNION {Around(s) \cap (closed_cells_ \ marked_cells_) :
                     s \in {c \in S : MinesAround(c) = 0}}

\* The least set that contains S and is closed under ClosureStep.
RECURSIVE Closure(_)
Closure(S) == IF ClosureStep(S) = S THEN S ELSE Closure(ClosureStep(S))

\* OpenCell(cell) gets as far as the flood fill.
Reveals(cell) ==
    /\ ~Finished
    /\ InGrid(cell)
    /\ cell \in closed_cells_
    /\ cell \notin marked_cells_
    /\ cell \notin cells_with_mines_

\* C15: in every reachable state, an OpenCell that reveals removes from the
\* closed set exactly the reference closure of its cell, and changes no
\* other cell.
C15_OpensReferenceClosure ==
    \A cell \in AllCells :
        Reveals(cell) =>
            LET after == OpenCellOp(Board, now, cell).b
                S == Closure({cell})
            IN  /\ S \subseteq closed_cells_
                /\ after.closed_cells_ = closed_cells_ \ S
                /\ after.marked_cells_ = marked_cells_
                /\ after.cells_with_mines_ = cells_with_mines_

\* The 3x3 board with the mine (2,2) and the flag (1,0) after OpenCell((0,0)):
\* the fill passed (0,1) and (0,2), stopped at the counts of (1,1) and (1,2)
\* and did not get past the flag to (2,0) and (2,1).
C15_Witness ==
    /\ width_ = 3
    /\ height_ = 3
    /\ cells_with_mines_ = {Cell(2, 2)}
    /\ marked_cells_ = {Cell(1, 0)}
    /\ last.op = "OpenCell"
    /\ status_ = "IN_PROGRESS"
    /\ closed_cells_ = {Cell(1, 0), Cell(2, 0), Cell(2, 1), Cell(2, 2)}

\* C16: in every reachable state, the flood fill of an OpenCell that reveals
\* comes to an end with the queue empty, having pushed no cell twice, only
\* cells that were closed, and having dequeued each pushed cell once: at
\* most width*height dequeues.
C16_FloodFillIsBounded ==
    \A cell \in AllCells :
        Reveals(cell) =>
            LET st == FloodFill(Board, cell)
            IN  /\ st.q = <<>>
                /\ \A m, n \in 1..Len(st.pushed) : st.pushed[m] = st.pushed[n] => m = n
                /\ Range(st.pushed) \subseteq closed_cells_
                /\ st.closed = closed_cells_ \ Range(st.pushed)
                /\ st.pops = Len(st.pushed)
                /\ st.pops <= width_ * height_

\* The mine-free 3x3 board with the flag (2,2) after an OpenCell whose fill
\* pushed and dequeued the 8 other cells; once the flag is taken off, the
\* fill of OpenCell((2,2)) is a single dequeue.
C16_Witness ==
    /\ width_ = 3
    /\ height_ = 3
    /\ cells_with_mines_ = {}
    /\ last.op = "OpenCell"
    /\ status_ = "IN_PROGRESS"
    /\ marked_cells_ = {Cell(2, 2)}
    /\ closed_cells_ = {Cell(2, 2)}
    /\ FloodFill(Board, Cell(2, 2)).pops = 1

\* C17: right after a setup that returned (constructor or NewGame, either
\* form) the board has the requested size, status NOT_STARTED, both
\* timestamps 0, no flag, every grid cell closed, and as mines exactly
\* mines_count distinct grid cells (count form) or exactly the listed cells
\* (list form).
C17_SetupStartsAfresh ==
    (last.op \in SetupOps /\ last.err = "none") =>
        /\ width_ = last.width
        /\ height_ = last.height
        /\ status_ = "NOT_STARTED"
        /\ start_time_ = 0
        /\ finish_time_ = 0
        /\ marked_cells_ = {}
        /\ closed_cells_ = AllCells
        /\ Cardinality(closed_cells_) = width_ * height_
        /\ cells_with_mines_ \subseteq AllCells
        /\ last.op \in {"Minesweeper(count)", "NewGame(count)"} =>
              Cardinality(cells_with_mines_) = last.mines_count
        /\ last.op \in {"Minesweeper(list)", "NewGame(list)"} =>
              cells_with_mines_ = {last.cells[k] : k \in 1..Len(last.cells)}

\* A NewGame on a 2x2 grid with the cell (0,0) listed twice, called after the
\* clock had advanced: one mine.
C17_Witness ==
    /\ last.op = "NewGame(list)"
    /\ last.err = "none"
    /\ last.cells = <<Cell(0, 0), Cell(0, 0)>>
    /\ width_ = 2
    /\ height_ = 2
    /\ cells_with_mines_ = {Cell(0, 0)}
    /\ now > 1

\* C18: in every state reached from a successful setup by OpenCell and
\* MarkCell calls, every mine is in the closed set, the closed set is a
\* subset of the grid with at least as many cells as there are mines, and a
\* cell that RenderField shows as a digit or '.' is opened and is not a mine.
C18_MinesStayClosed ==
    setup_ok =>
        /\ cells_with_mines_ \subseteq closed_cells_
        /\ closed_cells_ \subseteq AllCells
        /\ Cardinality(closed_cells_) >= Cardinality(cells_with_mines_)
        /\ \A cell \in AllCells :
              RenderCell(Board, cell) \notin {"*", "?", "-"} =>
                  cell \notin closed_cells_ /\ cell \notin cells_with_mines_

\* A 3x3 board with the mine (2,2) after OpenCell((0,0)): the fill has opened
\* all eight other cells and stopped at the mine.
C18_Witness ==
    /\ width_ = 3
    /\ height_ = 3
    /\ cells_with_mines_ = {Cell(2, 2)}
    /\ marked_cells_ = {}
    /\ closed_cells_ = {Cell(2, 2)}
    /\ status_ = "VICTORY"
    /\ last.op = "OpenCell"

\* The offsets (i, j) of the k-th step of the 3x3 scan.
ScanOffset(k) == [i |-> ((k - 1) \div 3) - 1, j |-> ((k - 1) % 3) - 1]

\* C19: every cell whose count the flood fill of a revealing OpenCell takes,
\* and every cell RenderField shows with its count, is a grid cell without a
\* mine whose CalcMinesNear is the number of mines among its in-grid 8
\* neighbours, a number in 0..8; a scan coordinate below 0 wraps around to
\* SizeModulus - 1, and every scanned coordinate that passes the bounds
\* check is the cell itself or one of its in-grid 8 neighbours.
C19_CountsInGridNeighbours ==
    LET b == Board
        counted == UNION {Range(FloodFill(b, cell).pushed) : cell \in {c \in AllCells : Reveals(c)}}
        shown == {cell \in AllCells : RenderCell(b, cell) \notin {"*", "?", "-"}}
    IN  /\ \A s \in counted \cup shown :
              LET mines_near == CalcMinesNear(b, s)
              IN  /\ s \in AllCells
                  /\ s \notin cells_with_mines_
                  /\ mines_near = MinesAround(s)
                  /\ mines_near \in 0..8
        /\ \A cell \in AllCells : \A k \in 1..9 :
              LET n == NeighborCell(cell, k)
              IN  /\ (cell.x = 0 /\ ScanOffset(k).i = -1) =>
                        n.x = SizeModulus - 1 /\ ~IsCorrectBoundary(b, n)
                  /\ (cell.y = 0 /\ ScanOffset(k).j = -1) =>
                        n.y = SizeModulus - 1 /\ ~IsCorrectBoundary(b, n)
                  /\ IsCorrectBoundary(b, n) =>
                        /\ n.x - cell.x \in {-1, 0, 1}
                        /\ n.y - cell.y \in {-1, 0, 1}
                        /\ n = cell \/ n \in Around(cell)

\* A 3x3 board with the mines (0,2) and (2,2) after OpenCell((0,0)): the fill
\* took the counts of the six cells of rows 0 and 1, four of them in row 0 or
\* column 0, and RenderField shows them.
C19_Witness ==
    /\ width_ = 3
    /\ height_ = 3
    /\ cells_with_mines_ = {Cell(0, 2), Cell(2, 2)}
    /\ last.op = "OpenCell"
    /\ status_ = "IN_PROGRESS"
    /\ RenderField(Board) = << <<".", ".", ".">>, <<"1", "2", "1">>, <<"-", "-", "-">> >>

\* C20: every MarkCell call leaves the closed set, the mine set, width,
\* height and the finish timestamp unchanged and does not finish the game;
\* every OpenCell call leaves the flagged set, the mine set, width and height
\* unchanged; neither call adds a cell outside the grid to the flagged set
\* nor any cell to the closed set, and both sets stay inside the grid.
C20_FlagsAndOpensAreSeparate ==
    /\ [](marked_cells_ \subseteq AllCells /\ closed_cells_ \subseteq AllCells)
    /\ [][\A cell \in ArgCells :
            /\ MarkStep(cell) =>
                  /\ UNCHANGED <<closed_cells_, cells_with_mines_, width_, height_,
                                 finish_time_>>
                  /\ ~Finished => ~Finished'
                  /\ (marked_cells_' \ marked_cells_) \subseteq AllCells
            /\ OpenStep(cell) =>
                  /\ UNCHANGED <<marked_cells_, cells_with_mines_, width_, height_>>
                  /\ closed_cells_' \subseteq closed_cells_]_vars

\* A 2x2 game with the mine (0,0) in which (1,1) was opened and then (0,0)
\* flagged: the flag is on, the opened cell is still the only opened one.
C20_Witness ==
    /\ width_ = 2
    /\ height_ = 2
    /\ cells_with_mines_ = {Cell(0, 0)}
    /\ last.op = "MarkCell"
    /\ status_ = "IN_PROGRESS"
    /\ marked_cells_ = {Cell(0, 0)}
    /\ closed_cells_ = AllCells \ {Cell(1, 1)}

=============================================================================
